---- MODULE Spec2Model ----
(***************************************************************************)
(* A model of monitor-input: the input-source codec (input_source.rs), the *)
(* monitor handle (monitor.rs) and the command interpreter (cli.rs).       *)
(*                                                                         *)
(* Text is modelled as a sequence of one-character strings, so that        *)
(* parsing, formatting and substring matching are computed, not assumed.   *)
(* An error message is a sequence of fragments: the literal parts of the   *)
(* format string are single elements, an interpolated argument contributes *)
(* its characters.                                                         *)
(***************************************************************************)
EXTENDS Integers, Sequences, FiniteSets, TLC

\* ------------------------------------------------------------------------
\* Bounds of the model
\* ------------------------------------------------------------------------

\* number of monitors the enumeration returns
NumMonitors == 2

\* number of positional arguments of one invocation
MaxArgs == 2

\* ------------------------------------------------------------------------
\* Text helpers
\* ------------------------------------------------------------------------

None == -1

DigitChars == <<"0", "1", "2", "3", "4", "5", "6", "7", "8", "9">>

UpperChars ==
    <<"A", "B", "C", "D", "E", "F", "G", "H", "I", "J", "K", "L", "M",
      "N", "O", "P", "Q", "R", "S", "T", "U", "V", "W", "X", "Y", "Z">>

LowerChars ==
    <<"a", "b", "c", "d", "e", "f", "g", "h", "i", "j", "k", "l", "m",
      "n", "o", "p", "q", "r", "s", "t", "u", "v", "w", "x", "y", "z">>

IsDigit(c) == \E i \in 1..10 : DigitChars[i] = c

DigitVal(c) == (CHOOSE i \in 1..10 : DigitChars[i] = c) - 1

\* char::to_ascii_lowercase
ToAsciiLower(c) ==
    IF \E i \in 1..26 : UpperChars[i] = c
    THEN LowerChars[CHOOSE i \in 1..26 : UpperChars[i] = c]
    ELSE c

\* str::eq_ignore_ascii_case
EqIgnoreAsciiCase(s, t) ==
    /\ Len(s) = Len(t)
    /\ \A i \in 1..Len(s) : ToAsciiLower(s[i]) = ToAsciiLower(t[i])

\* str::contains: t occurs in s as a contiguous run (the empty t always does)
StrContains(s, t) ==
    \E i \in 0..(Len(s) - Len(t)) :
        \A j \in 1..Len(t) : s[i + j] = t[j]

\* str::split(sep): the pieces between the separators, empty pieces kept
RECURSIVE SplitFrom(_, _, _)
SplitFrom(s, sep, cur) ==
    IF s = <<>> THEN <<cur>>
    ELSE IF Head(s) = sep THEN <<cur>> \o SplitFrom(Tail(s), sep, <<>>)
    ELSE SplitFrom(Tail(s), sep, Append(cur, Head(s)))

Split(s, sep) == SplitFrom(s, sep, <<>>)

\* the value of a run of decimal digits, stopping at limit + 1 (overflow)
RECURSIVE DigitsValue(_, _, _)
DigitsValue(s, acc, limit) ==
    IF s = <<>> THEN acc
    ELSE IF acc * 10 + DigitVal(Head(s)) > limit THEN limit + 1
    ELSE DigitsValue(Tail(s), acc * 10 + DigitVal(Head(s)), limit)

\* <unsigned>::from_str: an optional '+', then one or more digits, and the
\* value must fit the type; None stands for Err(ParseIntError)
ParseUnsigned(s, limit) ==
    LET digits == IF s # <<>> /\ Head(s) = "+" THEN Tail(s) ELSE s
    IN  IF digits = <<>> THEN None
        ELSE IF \E i \in 1..Len(digits) : ~IsDigit(digits[i]) THEN None
        ELSE IF DigitsValue(digits, 0, limit) > limit THEN None
        ELSE DigitsValue(digits, 0, limit)

\* ToDecimal, but the digits come out lowest first
RECURSIVE ToDecimal_reversed(_)
ToDecimal_reversed(v) ==
    IF v < 10 THEN <<DigitChars[v + 1]>>
    ELSE <<DigitChars[(v % 10) + 1]>> \o ToDecimal_reversed(v \div 10)

\* u8::to_string
RECURSIVE ToDecimal(_)
ToDecimal(v) ==
    IF v < 10 THEN <<DigitChars[v + 1]>>
    ELSE Append(ToDecimal(v \div 10), DigitChars[(v % 10) + 1])

\* ------------------------------------------------------------------------
\* input_source.rs
\* ------------------------------------------------------------------------

\* InputSourceRaw = u8
U8Max == 255

\* the largest index a token of the model can name; usize itself is wider
\* than any token the model draws
UsizeLimit == 1000000

\* enum InputSource: discriminant and the one name strum serializes it as
InputSource ==
    << [raw |-> 15, name |-> <<"D", "P", "1">>],
       [raw |-> 16, name |-> <<"D", "P", "2">>],
       [raw |-> 17, name |-> <<"H", "d", "m", "i", "1">>],
       [raw |-> 18, name |-> <<"H", "d", "m", "i", "2">>],
       [raw |-> 25, name |-> <<"U", "s", "b", "C", "1">>],
       [raw |-> 27, name |-> <<"U", "s", "b", "C", "2">>] >>

\* from_str, but without ascii_case_insensitive
from_str_exact(input) ==
    IF \E i \in 1..Len(InputSource) : InputSource[i].name = input
    THEN InputSource[CHOOSE i \in 1..Len(InputSource) :
                        InputSource[i].name = input].raw
    ELSE None

\* InputSource::from_str (EnumString, ascii_case_insensitive)
from_str(input) ==
    IF \E i \in 1..Len(InputSource) : EqIgnoreAsciiCase(InputSource[i].name, input)
    THEN InputSource[CHOOSE i \in 1..Len(InputSource) :
                        EqIgnoreAsciiCase(InputSource[i].name, input)].raw
    ELSE None

\* from_repr, but as_ref gives the identifier of the variant, not the name
\* it is serialized as
from_repr_ident(value) ==
    IF value = 15
    THEN <<"D", "i", "s", "p", "l", "a", "y", "P", "o", "r", "t", "1">>
    ELSE IF value = 16
    THEN <<"D", "i", "s", "p", "l", "a", "y", "P", "o", "r", "t", "2">>
    ELSE IF \E i \in 1..Len(InputSource) : InputSource[i].raw = value
    THEN InputSource[CHOOSE i \in 1..Len(InputSource) : InputSource[i].raw = value].name
    ELSE <<>>

\* InputSource::from_repr followed by as_ref
from_repr(value) ==
    IF \E i \in 1..Len(InputSource) : InputSource[i].raw = value
    THEN InputSource[CHOOSE i \in 1..Len(InputSource) : InputSource[i].raw = value].name
    ELSE <<>>

Ok(v) == [ok |-> TRUE, value |-> v]

Err(kind, msg) == [ok |-> FALSE, kind |-> kind, msg |-> msg]

raw_from_str(input) ==
    IF ParseUnsigned(input, U8Max) # None THEN Ok(ParseUnsigned(input, U8Max))
    ELSE IF from_str(input) # None THEN Ok(from_str(input))
    ELSE Err("InvalidInputSource",
             <<"\"">> \o input \o <<"\" is not a valid input source">>)

str_from_raw(value) ==
    IF from_repr(value) # <<>> THEN from_repr(value) ELSE ToDecimal(value)


\* ------------------------------------------------------------------------
\* The inputs of the model: monitors and command lines
\* ------------------------------------------------------------------------

Devices == 1..NumMonitors

\* the identifier the enumeration reports for a display
IdOf(d) == IF d % 2 = 1 THEN <<"a", "b">> ELSE <<"b", "c">>

\* the backend label of a display, fixed by the device
BackendOf(d) ==
    IF d % 2 = 1 THEN <<"w", "i", "n", "a", "p", "i">>
    ELSE <<"i", "2", "c", "-", "d", "e", "v">>

\* input sources a display may show when the program starts
InitialSources(d) == IF d <= 2 THEN {17, 25} ELSE {25}

NoBackend == [some |-> FALSE]

SomeBackend(s) == [some |-> TRUE, value |-> s]

\* values of the --backend option
BackendOptions == { NoBackend, SomeBackend(<<"i", "2", "c">>), SomeBackend(<<"x">>) }

\* the name part of an argument: substrings of identifiers and indices
SampleNames == { <<>>, <<"b">>, <<"c">>, <<"z">>, <<"0">>, <<"1">>, <<"9">> }

\* the value part of an argument: single values, toggle lists, bad values
SampleValues ==
    { <<"U", "S", "B", "C", "1">>,
      <<"2", "7", ",", "1", "5">>,
      <<"2", "5", ",", "h", "d", "m", "i", "1">>,
      <<"1", "5", ",", "1", "7", ",", "2", "5">>,
      <<"x", "y">>,
      <<"1", "7", ",">> }

\* positional arguments: lookups, assignments, and the near-assignments
SampleArgs ==
    SampleNames
    \cup { n \o <<"=">> \o v : n \in { <<"b">>, <<"c">>, <<"0">> },
                                 v \in SampleValues }
    \cup { n \o <<"=">> \o v : n \in { <<"z">>, <<"1">>, <<"9">> },
                                 v \in { <<"U", "S", "B", "C", "1">>,
                                         <<"2", "7", ",", "1", "5">> } }
    \cup { <<"a", "=">>, <<"=", "1", "7">> }

\* ------------------------------------------------------------------------
\* State
\* ------------------------------------------------------------------------

VARIABLES
    monitors,           \* Cli::monitors, each a Monitor with its display info
    backend,            \* Cli::backend
    needs_capabilities, \* Cli::needs_capabilities
    dry_run,            \* Cli::dry_run
    set_index,          \* Cli::set_index
    DRY_RUN,            \* static mut DRY_RUN
    hw,                 \* the input source each display currently shows
    pc,                 \* position in Cli::run
    argi,               \* number of arguments taken from Cli::args
    has_valid_args,     \* local of Cli::run
    frame,              \* the running for_each call with its callback
    result,             \* what Cli::run returned
    calls,              \* calls made to the displays and lines printed by
                        \* the argument being processed, in order
    writes,             \* number of set_vcp_feature calls per display
    writesOk,           \* number of those that succeeded
    sleeps,             \* number of sleep() calls per display
    capsFetch,          \* number of capability fetches per display
    input,              \* the argument of a function applied on its own
    output              \* and what the function returned

vars ==
    <<monitors, backend, needs_capabilities, dry_run, set_index, DRY_RUN, hw,
      pc, argi, has_valid_args, frame, result, calls, writes, writesOk,
      sleeps, capsFetch, input, output>>

\* Monitor::new
NewMonitor(d) ==
    [dev |-> d, id |-> IdOf(d), backend |-> BackendOf(d),
     is_capabilities_updated |-> FALSE, needs_sleep |-> FALSE]

\* no for_each call has been made for the argument
NoFrame ==
    [active |-> FALSE, name |-> <<>>, cb |-> "none", input_sources |-> <<>>,
     stored |-> None, set_index |-> None, by_index |-> FALSE, i |-> 1,
     has_match |-> FALSE, final |-> FALSE]

\* no function has been applied on its own
Unset == [set |-> FALSE]

Running == [state |-> "running"]

Init ==
    /\ monitors = [d \in Devices |-> NewMonitor(d)]
    /\ backend \in BackendOptions
    /\ needs_capabilities \in BOOLEAN
    /\ dry_run \in BOOLEAN
    /\ set_index = None
    /\ DRY_RUN = FALSE
    /\ hw \in { h \in [Devices -> {17, 25}] :
                     \A d \in Devices : h[d] \in InitialSources(d) }
    /\ pc = "start"
    /\ argi = 0
    /\ has_valid_args = FALSE
    /\ frame = NoFrame
    /\ result = Running
    /\ calls = <<>>
    /\ writes = [d \in Devices |-> 0]
    /\ writesOk = [d \in Devices |-> 0]
    /\ sleeps = [d \in Devices |-> 0]
    /\ capsFetch = [d \in Devices |-> 0]
    /\ input = Unset
    /\ output = Unset

\* ------------------------------------------------------------------------
\* monitor.rs
\* ------------------------------------------------------------------------

OkUnit == [ok |-> TRUE]

\* an error of the DDC/CI library, named after the call that failed
HwError(op) == Err("Hardware", <<op, " failed">>)

\* one call to a display and whether it succeeded
Call(op, d, ok) == [op |-> op, dev |-> d, ok |-> ok]

\* contains_backend, but the label must equal the filter
contains_backend_exact(m, backend_str) == m.backend = backend_str

\* Monitor::contains_backend
contains_backend(m, backend_str) == StrContains(m.backend, backend_str)

\* contains, but the name must start the identifier
contains_prefix(m, name) ==
    Len(name) <= Len(m.id) /\ SubSeq(m.id, 1, Len(name)) = name

\* Monitor::contains
contains(m, name) == StrContains(m.id, name)

\* update_capabilities, but the flag is set only when the fetch succeeded
update_capabilities_retry(m, fetchOk) ==
    IF m.is_capabilities_updated
    THEN [monitor |-> m, res |-> OkUnit, calls |-> <<>>]
    ELSE [monitor |-> [m EXCEPT !.is_capabilities_updated = fetchOk],
          res     |-> IF fetchOk THEN OkUnit ELSE HwError("update_capabilities"),
          calls   |-> <<Call("update_capabilities", m.dev, fetchOk)>>]

\* Monitor::update_capabilities; fetchOk is the outcome of the display's
\* own update_capabilities, should it be called
update_capabilities(m, fetchOk) ==
    IF m.is_capabilities_updated
    THEN [monitor |-> m, res |-> OkUnit, calls |-> <<>>]
    ELSE [monitor |-> [m EXCEPT !.is_capabilities_updated = TRUE],
          res     |-> IF fetchOk THEN OkUnit ELSE HwError("update_capabilities"),
          calls   |-> <<Call("update_capabilities", m.dev, fetchOk)>>]

\* Monitor::current_input_source; readOk is the outcome of get_vcp_feature
current_input_source(m, readOk) ==
    [res   |-> IF readOk THEN Ok(hw[m.dev]) ELSE HwError("get_vcp_feature"),
     calls |-> <<Call("get_vcp_feature", m.dev, readOk)>>]

\* set_current_input_source, but it settles right after its write
set_current_input_source_settles(m, value, writeOk) ==
    IF DRY_RUN
    THEN [monitor |-> m, res |-> OkUnit, calls |-> <<>>, shows |-> hw[m.dev]]
    ELSE IF writeOk
    THEN [monitor |-> m,
          res     |-> OkUnit,
          calls   |-> <<[op |-> "set_vcp_feature", dev |-> m.dev,
                         value |-> value, ok |-> TRUE],
                        Call("sleep", m.dev, TRUE)>>,
          shows   |-> value]
    ELSE [monitor |-> m,
          res     |-> HwError("set_vcp_feature"),
          calls   |-> <<[op |-> "set_vcp_feature", dev |-> m.dev,
                         value |-> value, ok |-> FALSE]>>,
          shows   |-> hw[m.dev]]

\* set_current_input_source, but without the test of the dry-run mode
set_current_input_source_wet(m, value, writeOk) ==
    IF writeOk
    THEN [monitor |-> [m EXCEPT !.needs_sleep = TRUE],
          res     |-> OkUnit,
          calls   |-> <<[op |-> "set_vcp_feature", dev |-> m.dev,
                         value |-> value, ok |-> TRUE]>>,
          shows   |-> value]
    ELSE [monitor |-> m,
          res     |-> HwError("set_vcp_feature"),
          calls   |-> <<[op |-> "set_vcp_feature", dev |-> m.dev,
                         value |-> value, ok |-> FALSE]>>,
          shows   |-> hw[m.dev]]

\* set_current_input_source, but the flag is set before the outcome of the
\* write is known
set_current_input_source_eager(m, value, writeOk) ==
    IF DRY_RUN
    THEN [monitor |-> m, res |-> OkUnit, calls |-> <<>>, shows |-> hw[m.dev]]
    ELSE [monitor |-> [m EXCEPT !.needs_sleep = TRUE],
          res     |-> IF writeOk THEN OkUnit ELSE HwError("set_vcp_feature"),
          calls   |-> <<[op |-> "set_vcp_feature", dev |-> m.dev,
                         value |-> value, ok |-> writeOk]>>,
          shows   |-> IF writeOk THEN value ELSE hw[m.dev]]

\* Monitor::set_current_input_source; writeOk is the outcome of
\* set_vcp_feature, should it be called.  shows is the input source the
\* display shows afterwards.
set_current_input_source(m, value, writeOk) ==
    IF DRY_RUN
    THEN [monitor |-> m, res |-> OkUnit, calls |-> <<>>, shows |-> hw[m.dev]]
    ELSE IF writeOk
    THEN [monitor |-> [m EXCEPT !.needs_sleep = TRUE],
          res     |-> OkUnit,
          calls   |-> <<[op |-> "set_vcp_feature", dev |-> m.dev,
                         value |-> value, ok |-> TRUE]>>,
          shows   |-> value]
    ELSE [monitor |-> m,
          res     |-> HwError("set_vcp_feature"),
          calls   |-> <<[op |-> "set_vcp_feature", dev |-> m.dev,
                         value |-> value, ok |-> FALSE]>>,
          shows   |-> hw[m.dev]]

\* sleep_if_needed, but without the test of needs_sleep
sleep_if_needed_always(m) ==
    [monitor |-> [m EXCEPT !.needs_sleep = FALSE],
     calls   |-> <<Call("sleep", m.dev, TRUE)>>]

\* Monitor::sleep_if_needed
sleep_if_needed(m) ==
    IF m.needs_sleep
    THEN [monitor |-> [m EXCEPT !.needs_sleep = FALSE],
          calls   |-> <<Call("sleep", m.dev, TRUE)>>]
    ELSE [monitor |-> m, calls |-> <<>>]

\* Monitor::to_long_string: the identifier and the "Input Source" line
to_long_string(m, readOk) ==
    LET input_source == current_input_source(m, readOk)
    IN  [text  |-> <<m.id,
                     IF input_source.res.ok
                     THEN str_from_raw(input_source.res.value)
                     ELSE input_source.res.msg>>,
         calls |-> input_source.calls]

\* ------------------------------------------------------------------------
\* cli.rs
\* ------------------------------------------------------------------------

Min(a, b) == IF a < b THEN a ELSE b

\* Cli::apply_filters
apply_filters(ms, backend_opt) ==
    IF backend_opt.some
    THEN SelectSeq(ms, LAMBDA m : contains_backend(m, backend_opt.value))
    ELSE ms

\* Iterator::position: index (from 0) of the first element equal to v
RECURSIVE position(_, _, _)
position(list, v, i) ==
    IF i > Len(list) THEN None
    ELSE IF list[i] = v THEN i - 1
    ELSE position(list, v, i + 1)

\* compute_toggle_set_index, but it stays on the position it found
compute_toggle_set_index_stay(current, input_sources) ==
    LET p == position(input_sources, current, 1)
    IN  IF p = None THEN 0 ELSE p

\* Cli::compute_toggle_set_index
compute_toggle_set_index(current, input_sources) ==
    LET p == position(input_sources, current, 1)
    IN  IF p = None THEN 0 ELSE p + 1

\* RE_SET_PATTERN ^([^=]+)=(.+)$ : the two captures, or <<>> when no match.
\* [^=] matches any character but '=', the line feed included; '.' matches
\* any character but the line feed, and '$' only the end of the text.
re_set_captures(arg) ==
    IF \E p \in 1..Len(arg) : arg[p] = "="
    THEN LET p == CHOOSE q \in 1..Len(arg) :
                     arg[q] = "=" /\ \A r \in 1..(q - 1) : arg[r] # "="
         IN  IF /\ p > 1
                /\ p < Len(arg)
                /\ \A r \in (p + 1)..Len(arg) : arg[r] # "\n"
             THEN <<SubSeq(arg, 1, p - 1), SubSeq(arg, p + 1, Len(arg))>>
             ELSE <<>>
    ELSE <<>>

\* raw_from_strs, but a value that is no input source is left out as long
\* as another one is
RECURSIVE raw_from_strs_lenient(_, _)
raw_from_strs_lenient(values, acc) ==
    IF values = <<>> THEN Ok(acc)
    ELSE LET r == raw_from_str(Head(values))
         IN  IF r.ok
             THEN raw_from_strs_lenient(Tail(values), Append(acc, r.value))
             ELSE IF acc = <<>> /\ Tail(values) = <<>> THEN r
             ELSE raw_from_strs_lenient(Tail(values), acc)

\* the loop of Cli::toggle over the values: the codes, or the first error
RECURSIVE raw_from_strs(_, _)
raw_from_strs(values, acc) ==
    IF values = <<>> THEN Ok(acc)
    ELSE LET r == raw_from_str(Head(values))
         IN  IF r.ok THEN raw_from_strs(Tail(values), Append(acc, r.value))
             ELSE r

\* toggle_callback, but the index is computed again for every monitor
toggle_callback_recompute(f, m, readOk, writeOk) ==
    LET read == current_input_source(m, readOk)
    IN  IF ~read.res.ok
        THEN [monitor |-> m, res |-> read.res, calls |-> read.calls,
              shows |-> hw[m.dev], set_index |-> f.set_index]
        ELSE LET index == compute_toggle_set_index(read.res.value,
                                                   f.input_sources)
                 used_index == Min(index, Len(f.input_sources) - 1)
                 w == set_current_input_source(
                          m, f.input_sources[used_index + 1], writeOk)
             IN  [monitor   |-> w.monitor,
                  res       |-> w.res,
                  calls     |-> read.calls \o w.calls,
                  shows     |-> w.shows,
                  set_index |-> index]

\* toggle_callback, but an index past the end of the list wraps to its start
toggle_callback_wraps(f, m, readOk, writeOk) ==
    LET read == current_input_source(m, readOk)
    IN  IF f.set_index = None /\ ~read.res.ok
        THEN [monitor |-> m, res |-> read.res, calls |-> read.calls,
              shows |-> hw[m.dev], set_index |-> None]
        ELSE LET index == IF f.set_index = None
                          THEN compute_toggle_set_index(read.res.value,
                                                        f.input_sources)
                          ELSE f.set_index
                 used_index == index % Len(f.input_sources)
                 w == set_current_input_source(
                          m, f.input_sources[used_index + 1], writeOk)
             IN  [monitor   |-> w.monitor,
                  res       |-> w.res,
                  calls     |-> (IF f.set_index = None THEN read.calls
                                 ELSE <<>>) \o w.calls,
                  shows     |-> w.shows,
                  set_index |-> index]

\* toggle_callback, but a failed read falls back to index 0
toggle_callback_fallback(f, m, readOk, writeOk) ==
    LET read == current_input_source(m, readOk)
        index == IF f.set_index # None THEN f.set_index
                 ELSE IF ~read.res.ok THEN 0
                 ELSE compute_toggle_set_index(read.res.value, f.input_sources)
        used_index == Min(index, Len(f.input_sources) - 1)
        w == set_current_input_source(
                 m, f.input_sources[used_index + 1], writeOk)
    IN  [monitor   |-> w.monitor,
         res       |-> w.res,
         calls     |-> (IF f.set_index = None THEN read.calls ELSE <<>>)
                          \o w.calls,
         shows     |-> w.shows,
         set_index |-> index]

\* the closure Cli::toggle passes to for_each
toggle_callback(f, m, readOk, writeOk) ==
    LET read == current_input_source(m, readOk)
    IN  IF f.set_index = None /\ ~read.res.ok
        THEN [monitor |-> m, res |-> read.res, calls |-> read.calls,
              shows |-> hw[m.dev], set_index |-> None]
        ELSE LET index == IF f.set_index = None
                          THEN compute_toggle_set_index(read.res.value,
                                                        f.input_sources)
                          ELSE f.set_index
                 used_index == Min(index, Len(f.input_sources) - 1)
                 w == set_current_input_source(
                          m, f.input_sources[used_index + 1], writeOk)
             IN  [monitor   |-> w.monitor,
                  res       |-> w.res,
                  calls     |-> (IF f.set_index = None THEN read.calls
                                 ELSE <<>>) \o w.calls,
                  shows     |-> w.shows,
                  set_index |-> index]

\* the closure Cli::set passes to for_each
set_callback(f, m, writeOk) ==
    LET w == set_current_input_source(m, f.input_sources[1], writeOk)
    IN  [monitor |-> w.monitor, res |-> w.res, calls |-> w.calls,
         shows |-> w.shows, set_index |-> f.set_index]

\* print_callback, but a failed read is returned and nothing is printed
print_callback_strict(f, index, m, readOk) ==
    LET s == to_long_string(m, readOk)
    IN  IF readOk
        THEN [monitor |-> m, res |-> OkUnit,
              calls |-> s.calls \o <<[op |-> "println", dev |-> m.dev,
                                      ok |-> TRUE, index |-> index,
                                      text |-> s.text]>>,
              shows |-> hw[m.dev], set_index |-> f.set_index]
        ELSE [monitor |-> m, res |-> HwError("get_vcp_feature"),
              calls |-> s.calls, shows |-> hw[m.dev],
              set_index |-> f.set_index]

\* the closure Cli::print_list passes to for_each
print_callback(f, index, m, readOk) ==
    LET s == to_long_string(m, readOk)
    IN  [monitor |-> m, res |-> OkUnit,
         calls |-> s.calls \o <<[op |-> "println", dev |-> m.dev, ok |-> TRUE,
                                 index |-> index, text |-> s.text]>>,
         shows |-> hw[m.dev], set_index |-> f.set_index]

\* callback(index, monitor) of for_each, preceded by a record of the call
callback(f, index, m, readOk, writeOk) ==
    LET c == CASE f.cb = "toggle" -> toggle_callback(f, m, readOk, writeOk)
               [] f.cb = "set"    -> set_callback(f, m, writeOk)
               [] OTHER           -> print_callback(f, index, m, readOk)
    IN  [c EXCEPT !.calls = <<[op |-> "callback", dev |-> m.dev, ok |-> c.res.ok,
                               index |-> index, shows |-> hw[m.dev]]>>
                            \o c.calls]

\* how many calls of a sequence are op on display d
Count(cs, op, d) ==
    Cardinality({ k \in 1..Len(cs) : cs[k].op = op /\ cs[k].dev = d })

\* how many calls of a sequence are op on display d and succeeded
CountOk(cs, op, d) ==
    Cardinality({ k \in 1..Len(cs) :
                    cs[k].op = op /\ cs[k].dev = d /\ cs[k].ok })

\* the per-display counters after the calls cs were made
Counted(cs) ==
    /\ writes' = [d \in Devices |-> writes[d] + Count(cs, "set_vcp_feature", d)]
    /\ writesOk' = [d \in Devices |->
                       writesOk[d] + CountOk(cs, "set_vcp_feature", d)]
    /\ sleeps' = [d \in Devices |-> sleeps[d] + Count(cs, "sleep", d)]
    /\ capsFetch' = [d \in Devices |->
                        capsFetch[d] + Count(cs, "update_capabilities", d)]

\* EnterForEach, but toggle starts every argument without an index
EnterForEach_FreshIndex(name, cb, input_sources, final) ==
    /\ frame' = [active        |-> TRUE,
                 name          |-> name,
                 cb            |-> cb,
                 input_sources |-> input_sources,
                 stored        |-> IF cb = "toggle" THEN set_index ELSE None,
                 set_index     |-> None,
                 by_index      |-> ParseUnsigned(name, UsizeLimit) # None,
                 i             |-> 1,
                 has_match     |-> FALSE,
                 final         |-> final]
    /\ pc' = "for_each"
    /\ result' = result

\* Cli::for_each is entered: a numeric name selects index mode
EnterForEach(name, cb, input_sources, final) ==
    /\ frame' = [active        |-> TRUE,
                 name          |-> name,
                 cb            |-> cb,
                 input_sources |-> input_sources,
                 stored        |-> IF cb = "toggle" THEN set_index ELSE None,
                 set_index     |-> IF cb = "toggle" THEN set_index ELSE None,
                 by_index      |-> ParseUnsigned(name, UsizeLimit) # None,
                 i             |-> 1,
                 has_match     |-> FALSE,
                 final         |-> final]
    /\ pc' = "for_each"
    /\ result' = result

\* an argument failed before any display was visited: Cli::run returns it
FailArg(error) ==
    /\ frame' = NoFrame
    /\ pc' = "done"
    /\ result' = error

\* what an argument asks for: the callback, the name and the input sources
\* of the for_each call it leads to, or the error it fails with before
Plan(cb, name, input_sources) ==
    [cb |-> cb, name |-> name,
     input_sources |-> IF input_sources.ok THEN input_sources.value ELSE <<>>,
     res |-> IF input_sources.ok THEN OkUnit ELSE input_sources]

\* Cli::set up to its call of for_each, Cli::toggle included
set(name, value) ==
    LET toggle_values == Split(value, ",")
    IN  IF Len(toggle_values) > 1
        THEN Plan("toggle", name, raw_from_strs(toggle_values, <<>>))
        ELSE LET input_source == raw_from_str(value)
             IN  Plan("set", name,
                      IF input_source.ok THEN Ok(<<input_source.value>>)
                      ELSE input_source)

\* Cli::print_list up to its call of for_each
print_list(name) == Plan("print", name, Ok(<<>>))

\* the body of the loop of Cli::run up to the call of for_each
run_arg(arg) ==
    LET captures == re_set_captures(arg)
    IN  IF captures # <<>> THEN set(captures[1], captures[2])
        ELSE print_list(arg)

\* run_arg of every argument the model draws, worked out once
ArgPlans == { run_arg(arg) : arg \in SampleArgs }

\* Return, but Cli::run goes on to the next argument after an error
Return_continue(f, res) ==
    /\ frame' = [f EXCEPT !.active = FALSE]
    /\ set_index' = IF f.cb = "toggle" THEN f.set_index ELSE set_index
    /\ pc' = IF f.final THEN "sleep" ELSE "args"
    /\ has_valid_args' = (has_valid_args \/ ~f.final)
    /\ result' = IF res.ok THEN result ELSE res

\* for_each returned res to set, toggle or print_list, which return it to
\* Cli::run; toggle stores its set_index first
Return(f, res) ==
    /\ frame' = [f EXCEPT !.active = FALSE]
    /\ set_index' = IF f.cb = "toggle" THEN f.set_index ELSE set_index
    /\ IF res.ok
       THEN /\ pc' = IF f.final THEN "sleep" ELSE "args"
            /\ has_valid_args' = (has_valid_args \/ ~f.final)
            /\ result' = result
       ELSE /\ pc' = "done"
            /\ has_valid_args' = has_valid_args
            /\ result' = res

\* Refresh, but without the test of the needs-capabilities option
Refresh_always(m, fetchOk) == update_capabilities(m, fetchOk)

\* Refresh, but only of a monitor that matches the name
Refresh_matching(m, fetchOk) ==
    IF needs_capabilities /\ (frame.name = <<>> \/ contains(m, frame.name))
    THEN update_capabilities(m, fetchOk)
    ELSE [monitor |-> m, res |-> OkUnit, calls |-> <<>>]

\* the capability refresh for_each makes before it looks at a monitor
Refresh(m, fetchOk) ==
    IF needs_capabilities THEN update_capabilities(m, fetchOk)
    ELSE [monitor |-> m, res |-> OkUnit, calls |-> <<>>]

\* the outcomes a hardware call can have: both when the step can make the
\* call, and only success, which then decides nothing, when it cannot
FetchOutcomes(m) ==
    IF needs_capabilities /\ ~m.is_capabilities_updated THEN BOOLEAN ELSE {TRUE}

ReadOutcomes(called) ==
    IF called /\ (frame.cb = "print"
                     \/ (frame.cb = "toggle" /\ frame.set_index = None))
    THEN BOOLEAN ELSE {TRUE}

WriteOutcomes(called) ==
    IF called /\ frame.cb \in {"set", "toggle"} /\ ~DRY_RUN
    THEN BOOLEAN ELSE {TRUE}

\* what a refresh u and a callback c on monitors[i] leave behind
Effects(i, u, c) ==
    /\ monitors' = [monitors EXCEPT ![i] = c.monitor]
    /\ hw' = [hw EXCEPT ![c.monitor.dev] = c.shows]
    /\ calls' = calls \o u.calls \o c.calls
    /\ Counted(u.calls \o c.calls)

\* Cli::run, lines 199-201
Start ==
    /\ pc = "start"
    /\ DRY_RUN' = dry_run
    /\ monitors' = apply_filters(monitors, backend)
    /\ pc' = "args"
    /\ UNCHANGED <<backend, needs_capabilities, dry_run, set_index, hw, argi,
                   has_valid_args, frame, result, calls, writes, writesOk,
                   sleeps, capsFetch, input, output>>

\* Cli::run takes the next argument
BeginArg ==
    /\ pc = "args"
    /\ argi < MaxArgs
    /\ \E plan \in ArgPlans :
              IF plan.res.ok
              THEN EnterForEach(plan.name, plan.cb, plan.input_sources, FALSE)
              ELSE FailArg(plan.res)
    /\ argi' = argi + 1
    /\ calls' = <<>>
    /\ UNCHANGED <<monitors, backend, needs_capabilities, dry_run, set_index,
                   DRY_RUN, hw, has_valid_args, writes, writesOk, sleeps,
                   capsFetch, input, output>>

\* EndArgs, but without the listing that stands in for missing arguments
EndArgs_silent ==
    /\ pc = "args"
    /\ pc' = "sleep"
    /\ UNCHANGED <<monitors, backend, needs_capabilities, dry_run, set_index,
                   DRY_RUN, hw, argi, has_valid_args, frame, result, calls,
                   writes, writesOk, sleeps, capsFetch, input, output>>

\* Cli::run has taken every argument
EndArgs ==
    /\ pc = "args"
    /\ IF ~has_valid_args
       THEN EnterForEach(<<>>, "print", <<>>, TRUE) /\ calls' = <<>>
       ELSE pc' = "sleep" /\ UNCHANGED <<frame, result, calls>>
    /\ UNCHANGED <<monitors, backend, needs_capabilities, dry_run, set_index,
                   DRY_RUN, hw, argi, has_valid_args, writes, writesOk,
                   sleeps, capsFetch, input, output>>

\* ForEachIndex, but an index past the end of the list is an ordinary error
ForEachIndex_checked ==
    /\ pc = "for_each"
    /\ frame.by_index
    /\ LET index == ParseUnsigned(frame.name, UsizeLimit)
       IN  IF index >= Len(monitors)
           THEN /\ Return(frame,
                          Err("NoMonitors",
                              <<"No display monitors found for \"">>
                                  \o frame.name \o <<"\".">>))
                /\ UNCHANGED <<monitors, hw, calls, writes, writesOk, sleeps,
                               capsFetch>>
           ELSE \E fetchOk \in FetchOutcomes(monitors[index + 1]),
                   readOk \in ReadOutcomes(TRUE),
                   writeOk \in WriteOutcomes(TRUE) :
                   LET u == Refresh(monitors[index + 1], fetchOk)
                       c == callback(frame, index, u.monitor, readOk, writeOk)
                   IN  /\ Effects(index + 1, u, c)
                       /\ Return([frame EXCEPT !.set_index = c.set_index],
                                 c.res)
    /\ UNCHANGED <<backend, needs_capabilities, dry_run, DRY_RUN, argi, input,
                   output>>

\* Cli::for_each with a numeric name, lines 102-109
ForEachIndex ==
    /\ pc = "for_each"
    /\ frame.by_index
    /\ LET index == ParseUnsigned(frame.name, UsizeLimit)
       IN  IF index >= Len(monitors)
           THEN /\ pc' = "panicked"
                /\ result' = [state |-> "panicked"]
                /\ UNCHANGED <<monitors, set_index, hw, has_valid_args, frame,
                               calls, writes, writesOk, sleeps, capsFetch>>
           ELSE \E fetchOk \in FetchOutcomes(monitors[index + 1]),
                   readOk \in ReadOutcomes(TRUE),
                   writeOk \in WriteOutcomes(TRUE) :
                   LET u == Refresh(monitors[index + 1], fetchOk)
                       c == callback(frame, index, u.monitor, readOk, writeOk)
                   IN  /\ Effects(index + 1, u, c)
                       /\ Return([frame EXCEPT !.set_index = c.set_index],
                                 c.res)
    /\ UNCHANGED <<backend, needs_capabilities, dry_run, DRY_RUN, argi, input,
                   output>>

\* ForEachVisit, but the loop goes on to the next monitor after an error of
\* the callback
ForEachVisit_continues ==
    /\ pc = "for_each"
    /\ ~frame.by_index
    /\ frame.i <= Len(monitors)
    /\ \E fetchOk \in FetchOutcomes(monitors[frame.i]),
          readOk \in ReadOutcomes(frame.name = <<>>
                                     \/ contains(monitors[frame.i], frame.name)),
          writeOk \in WriteOutcomes(frame.name = <<>>
                                       \/ contains(monitors[frame.i], frame.name)) :
          LET u == Refresh(monitors[frame.i], fetchOk)
          IN  IF Len(frame.name) > 0 /\ ~contains(u.monitor, frame.name)
              THEN /\ Effects(frame.i, u,
                              [monitor |-> u.monitor, calls |-> <<>>,
                               shows |-> hw[u.monitor.dev]])
                   /\ frame' = [frame EXCEPT !.i = @ + 1]
                   /\ UNCHANGED <<set_index, pc, has_valid_args, result>>
              ELSE LET c == callback(frame, frame.i - 1, u.monitor,
                                     readOk, writeOk)
                   IN  /\ Effects(frame.i, u, c)
                       /\ frame' = [frame EXCEPT
                                       !.i = @ + 1,
                                       !.has_match = TRUE,
                                       !.set_index = c.set_index]
                       /\ UNCHANGED <<set_index, pc, has_valid_args, result>>
    /\ UNCHANGED <<backend, needs_capabilities, dry_run, DRY_RUN, argi, input,
                   output>>

\* Cli::for_each, one turn of the loop of lines 112-122
ForEachVisit ==
    /\ pc = "for_each"
    /\ ~frame.by_index
    /\ frame.i <= Len(monitors)
    /\ \E fetchOk \in FetchOutcomes(monitors[frame.i]),
          readOk \in ReadOutcomes(frame.name = <<>>
                                     \/ contains(monitors[frame.i], frame.name)),
          writeOk \in WriteOutcomes(frame.name = <<>>
                                       \/ contains(monitors[frame.i], frame.name)) :
          LET u == Refresh(monitors[frame.i], fetchOk)
          IN  IF Len(frame.name) > 0 /\ ~contains(u.monitor, frame.name)
              THEN /\ Effects(frame.i, u,
                              [monitor |-> u.monitor, calls |-> <<>>,
                               shows |-> hw[u.monitor.dev]])
                   /\ frame' = [frame EXCEPT !.i = @ + 1]
                   /\ UNCHANGED <<set_index, pc, has_valid_args, result>>
              ELSE LET c == callback(frame, frame.i - 1, u.monitor,
                                     readOk, writeOk)
                   IN  /\ Effects(frame.i, u, c)
                       /\ IF c.res.ok
                          THEN /\ frame' = [frame EXCEPT
                                               !.i = @ + 1,
                                               !.has_match = TRUE,
                                               !.set_index = c.set_index]
                               /\ UNCHANGED <<set_index, pc, has_valid_args,
                                              result>>
                          ELSE Return([frame EXCEPT
                                          !.i = @ + 1,
                                          !.has_match = TRUE,
                                          !.set_index = c.set_index], c.res)
    /\ UNCHANGED <<backend, needs_capabilities, dry_run, DRY_RUN, argi, input,
                   output>>

\* ForEachDone, but a loop that matched no monitor returns success
ForEachDone_lenient ==
    /\ pc = "for_each"
    /\ ~frame.by_index
    /\ frame.i > Len(monitors)
    /\ Return(frame, OkUnit)
    /\ UNCHANGED <<monitors, backend, needs_capabilities, dry_run, DRY_RUN, hw,
                   argi, calls, writes, writesOk, sleeps, capsFetch, input,
                   output>>

\* Cli::for_each after the loop, lines 123-127
ForEachDone ==
    /\ pc = "for_each"
    /\ ~frame.by_index
    /\ frame.i > Len(monitors)
    /\ IF frame.has_match
       THEN Return(frame, OkUnit)
       ELSE Return(frame,
                   Err("NoMonitors",
                       <<"No display monitors found for \"">> \o frame.name
                           \o <<"\".">>))
    /\ UNCHANGED <<monitors, backend, needs_capabilities, dry_run, DRY_RUN, hw,
                   argi, calls, writes, writesOk, sleeps, capsFetch, input,
                   output>>

\* the calls a sequence of monitors makes when each is asked to sleep
RECURSIVE SleepCalls(_)
SleepCalls(ms) ==
    IF ms = <<>> THEN <<>>
    ELSE sleep_if_needed(Head(ms)).calls \o SleepCalls(Tail(ms))

\* Cli::sleep_all_if_needed and the return of Cli::run, lines 219-221
SleepAll ==
    /\ pc = "sleep"
    /\ monitors' = [i \in 1..Len(monitors) |->
                        sleep_if_needed(monitors[i]).monitor]
    /\ calls' = calls \o SleepCalls(monitors)
    /\ Counted(SleepCalls(monitors))
    /\ pc' = "done"
    /\ result' = OkUnit
    /\ UNCHANGED <<backend, needs_capabilities, dry_run, set_index, DRY_RUN,
                   hw, argi, has_valid_args, frame, input, output>>

Next ==
    \/ Start
    \/ BeginArg
    \/ EndArgs
    \/ ForEachIndex
    \/ ForEachVisit
    \/ ForEachDone
    \/ SleepAll

Spec == Init /\ [][Next]_vars

\* ------------------------------------------------------------------------
\* compute_toggle_set_index applied on its own
\* ------------------------------------------------------------------------

\* longest list of input sources handed to compute_toggle_set_index
MaxListLen == 3

\* the codes the lists are made of, and one more that is in no list
ListCodes == {1, 4, 9}

CurrentCodes == ListCodes \cup {0}

Lists == UNION { [1..n -> ListCodes] : n \in 0..MaxListLen }

\* the command interpreter at rest while a function is applied on its own
NotRunning ==
    /\ monitors = [d \in Devices |-> NewMonitor(d)]
    /\ backend = NoBackend
    /\ needs_capabilities = FALSE
    /\ dry_run = FALSE
    /\ set_index = None
    /\ DRY_RUN = FALSE
    /\ hw = [d \in Devices |-> 17]
    /\ pc = "function"
    /\ argi = 0
    /\ has_valid_args = FALSE
    /\ frame = NoFrame
    /\ result = Running
    /\ calls = <<>>
    /\ writes = [d \in Devices |-> 0]
    /\ writesOk = [d \in Devices |-> 0]
    /\ sleeps = [d \in Devices |-> 0]
    /\ capsFetch = [d \in Devices |-> 0]

InitToggle ==
    /\ NotRunning
    /\ \E c \in CurrentCodes, l \in Lists :
          input = [set |-> TRUE, current |-> c, input_sources |-> l]
    /\ output = Unset

ApplyToggle ==
    /\ pc = "function"
    /\ ~output.set
    /\ output' = [set |-> TRUE,
                  value |-> compute_toggle_set_index(input.current,
                                                     input.input_sources)]
    /\ UNCHANGED <<monitors, backend, needs_capabilities, dry_run, set_index,
                   DRY_RUN, hw, pc, argi, has_valid_args, frame, result, calls,
                   writes, writesOk, sleeps, capsFetch, input>>

NextToggle == ApplyToggle

SpecToggle == InitToggle /\ [][NextToggle]_vars

\* ------------------------------------------------------------------------
\* raw_from_str and str_from_raw applied on their own
\* ------------------------------------------------------------------------

\* the largest number whose decimal text is handed to raw_from_str
MaxNumber == 260

\* every value of InputSourceRaw
ByteValues == 0..U8Max

\* char::to_ascii_uppercase
ToAsciiUpper(c) ==
    IF \E i \in 1..26 : LowerChars[i] = c
    THEN UpperChars[CHOOSE i \in 1..26 : LowerChars[i] = c]
    ELSE c

\* decimal texts: plain, with a sign, with a leading zero
NumberTexts ==
    LET plain == { ToDecimal(v) : v \in 0..MaxNumber }
    IN  plain
        \cup { <<"+">> \o t : t \in plain }
        \cup { <<"0">> \o t : t \in plain }
        \cup { <<"-">> \o ToDecimal(v) : v \in 0..9 }

\* the names of the input sources as written, in capitals and in small
\* letters
NameTexts ==
    LET names == { InputSource[i].name : i \in 1..Len(InputSource) }
    IN  names
        \cup { [k \in 1..Len(n) |-> ToAsciiUpper(n[k])] : n \in names }
        \cup { [k \in 1..Len(n) |-> ToAsciiLower(n[k])] : n \in names }

\* texts that are neither
OtherTexts ==
    { <<>>,
      <<"x", "y", "z">>,
      <<"+">>,
      <<"H", "d", "m", "i">>,
      <<"H", "d", "m", "i", "3">>,
      <<"H", "d", "m", "i", "1", " ">>,
      <<" ", "1", "7">>,
      <<"1", ",", "7">>,
      <<"0", "x", "1", "1">>,
      <<"D", "i", "s", "p", "l", "a", "y", "P", "o", "r", "t", "1">> }

SampleTexts == NumberTexts \cup NameTexts \cup OtherTexts

InitCodec ==
    /\ NotRunning
    /\ \/ \E v \in ByteValues : input = [set |-> TRUE, kind |-> "raw", value |-> v]
       \/ \E t \in SampleTexts : input = [set |-> TRUE, kind |-> "str", text |-> t]
    /\ output = Unset

\* str_from_raw, and raw_from_str of the text it gave
ApplyStrFromRaw ==
    /\ pc = "function"
    /\ input.kind = "raw"
    /\ ~output.set
    /\ output' = [set  |-> TRUE,
                  text |-> str_from_raw(input.value),
                  back |-> raw_from_str(str_from_raw(input.value))]
    /\ UNCHANGED <<monitors, backend, needs_capabilities, dry_run, set_index,
                   DRY_RUN, hw, pc, argi, has_valid_args, frame, result, calls,
                   writes, writesOk, sleeps, capsFetch, input>>

\* raw_from_str
ApplyRawFromStr ==
    /\ pc = "function"
    /\ input.kind = "str"
    /\ ~output.set
    /\ output' = [set |-> TRUE, res |-> raw_from_str(input.text)]
    /\ UNCHANGED <<monitors, backend, needs_capabilities, dry_run, set_index,
                   DRY_RUN, hw, pc, argi, has_valid_args, frame, result, calls,
                   writes, writesOk, sleeps, capsFetch, input>>

NextCodec ==
    \/ ApplyStrFromRaw
    \/ ApplyRawFromStr

SpecCodec == InitCodec /\ [][NextCodec]_vars

\* ------------------------------------------------------------------------
\* The choice between assignment and lookup applied on its own
\* ------------------------------------------------------------------------

\* longest argument drawn from ArgChars
MaxArgLen == 3

\* a letter, a digit, the separator and a line feed
ArgChars == {"a", "1", "=", "\n"}

\* the arguments of tests::re_set
TestArgs ==
    { <<"a">>, <<"a", "=">>, <<"=", "a">>, <<"a", "=", "b">>,
      <<"1", "=", "2", "3">>, <<"1", "2", "=", "3", "4">>,
      <<"1", "2", "=", "3", ",", "4">> }

ArgTexts == TestArgs \cup UNION { [1..n -> ArgChars] : n \in 0..MaxArgLen }

InitReSet ==
    /\ NotRunning
    /\ \E t \in ArgTexts : input = [set |-> TRUE, text |-> t]
    /\ output = Unset

\* the match of RE_SET_PATTERN and the call Cli::run makes on its outcome
ApplyReSet ==
    /\ pc = "function"
    /\ ~output.set
    /\ output' = [set      |-> TRUE,
                  captures |-> re_set_captures(input.text),
                  plan     |-> run_arg(input.text)]
    /\ UNCHANGED <<monitors, backend, needs_capabilities, dry_run, set_index,
                   DRY_RUN, hw, pc, argi, has_valid_args, frame, result, calls,
                   writes, writesOk, sleeps, capsFetch, input>>

NextReSet == ApplyReSet

SpecReSet == InitReSet /\ [][NextReSet]_vars

\* ------------------------------------------------------------------------
\* Cli::run with one given argument
\* ------------------------------------------------------------------------

\* the names of the given argument: a substring of both identifiers, and an
\* index
OneArgNames == { <<"b">>, <<"0">> }

\* its values: input sources, lists of them, and values and lists with
\* something in them that is no input source
OneArgValues ==
    { <<"1", "7">>,
      <<"x", "y">>,
      <<"2", "5", "6">>,
      <<"1", ",">>,
      <<",", "1">>,
      <<",">>,
      <<"1", "7", ",", "h", "d", "m", "i", "1">>,
      <<"1", "7", ",", "x", "y">>,
      <<"x", "y", ",", "1", "7">>,
      <<"1", "7", ",", ",", "2", "5">>,
      <<"2", "5", ",", "2", "5", "6">>,
      <<"1", "5", ",", "1", "7", ",", "x">> }

OneArgTexts == { n \o <<"=">> \o v : n \in OneArgNames, v \in OneArgValues }

InitOneArg ==
    /\ monitors = [d \in Devices |-> NewMonitor(d)]
    /\ backend = NoBackend
    /\ needs_capabilities \in BOOLEAN
    /\ dry_run = FALSE
    /\ set_index = None
    /\ DRY_RUN = FALSE
    /\ hw = [d \in Devices |-> 17]
    /\ pc = "start"
    /\ argi = 0
    /\ has_valid_args = FALSE
    /\ frame = NoFrame
    /\ result = Running
    /\ calls = <<>>
    /\ writes = [d \in Devices |-> 0]
    /\ writesOk = [d \in Devices |-> 0]
    /\ sleeps = [d \in Devices |-> 0]
    /\ capsFetch = [d \in Devices |-> 0]
    /\ \E t \in OneArgTexts : input = [set |-> TRUE, text |-> t]
    /\ output = Unset

\* Cli::run takes the argument
BeginOneArg ==
    /\ pc = "args"
    /\ argi = 0
    /\ LET plan == run_arg(input.text)
       IN  IF plan.res.ok
           THEN EnterForEach(plan.name, plan.cb, plan.input_sources, FALSE)
           ELSE FailArg(plan.res)
    /\ argi' = 1
    /\ calls' = <<>>
    /\ UNCHANGED <<monitors, backend, needs_capabilities, dry_run, set_index,
                   DRY_RUN, hw, has_valid_args, writes, writesOk, sleeps,
                   capsFetch, input, output>>

\* Cli::run has taken the argument
EndOneArg ==
    /\ argi = 1
    /\ EndArgs

NextOneArg ==
    \/ Start
    \/ BeginOneArg
    \/ EndOneArg
    \/ ForEachIndex
    \/ ForEachVisit
    \/ ForEachDone
    \/ SleepAll

SpecOneArg == InitOneArg /\ [][NextOneArg]_vars

\* ------------------------------------------------------------------------
\* Cli::run called again on the same Cli
\* ------------------------------------------------------------------------

\* number of calls of Cli::run on the one Cli
MaxRuns == 2

\* the arguments of these runs: toggles by index and by name, and a lookup
ReuseArgs ==
    { <<"0", "=", "2", "7", ",", "1", "5">>,
      <<"b", "=", "2", "5", ",", "h", "d", "m", "i", "1">>,
      <<"b", "=", "1", "5", ",", "1", "7", ",", "2", "5">>,
      <<"b">> }

ReusePlans == { run_arg(arg) : arg \in ReuseArgs }

\* the reads of the current input source a toggle argument made
ToggleReads(f, cs) ==
    IF f.cb = "toggle"
    THEN { k \in 1..Len(cs) : cs[k].op = "get_vcp_feature" }
    ELSE {}

\* what the Cli has been through before the argument being processed: the
\* calls of run, and the reads toggle arguments made and how many succeeded
FirstRun == [set |-> TRUE, runs |-> 1, reads |-> 0, readsOk |-> 0]

\* the history with the argument of frame added to it
Past ==
    [input EXCEPT
        !.reads = @ + Cardinality(ToggleReads(frame, calls)),
        !.readsOk = @ + Cardinality({ k \in ToggleReads(frame, calls) :
                                         calls[k].ok })]

InitReuse ==
    /\ monitors = [d \in Devices |-> NewMonitor(d)]
    /\ backend = NoBackend
    /\ needs_capabilities = FALSE
    /\ dry_run = FALSE
    /\ set_index = None
    /\ DRY_RUN = FALSE
    /\ hw = [d \in Devices |-> 17]
    /\ pc = "start"
    /\ argi = 0
    /\ has_valid_args = FALSE
    /\ frame = NoFrame
    /\ result = Running
    /\ calls = <<>>
    /\ writes = [d \in Devices |-> 0]
    /\ writesOk = [d \in Devices |-> 0]
    /\ sleeps = [d \in Devices |-> 0]
    /\ capsFetch = [d \in Devices |-> 0]
    /\ input = FirstRun
    /\ output = Unset

\* Cli::run takes the next argument
BeginReuseArg ==
    /\ pc = "args"
    /\ argi < MaxArgs
    /\ \E plan \in ReusePlans :
          IF plan.res.ok
          THEN EnterForEach(plan.name, plan.cb, plan.input_sources, FALSE)
          ELSE FailArg(plan.res)
    /\ argi' = argi + 1
    /\ calls' = <<>>
    /\ input' = Past
    /\ UNCHANGED <<monitors, backend, needs_capabilities, dry_run, set_index,
                   DRY_RUN, hw, has_valid_args, writes, writesOk, sleeps,
                   capsFetch, output>>

\* Restart, but every call of run starts without a toggle index
Restart_fresh ==
    /\ pc = "done"
    /\ input.runs < MaxRuns
    /\ pc' = "start"
    /\ argi' = 0
    /\ has_valid_args' = FALSE
    /\ frame' = NoFrame
    /\ result' = Running
    /\ calls' = <<>>
    /\ set_index' = None
    /\ input' = [Past EXCEPT !.runs = @ + 1]
    /\ UNCHANGED <<monitors, backend, needs_capabilities, dry_run, DRY_RUN,
                   hw, writes, writesOk, sleeps, capsFetch, output>>

\* Cli::run has returned, with success or with an error, and is called
\* again: the locals of run are new, the fields of the Cli are as they were
Restart ==
    /\ pc = "done"
    /\ input.runs < MaxRuns
    /\ pc' = "start"
    /\ argi' = 0
    /\ has_valid_args' = FALSE
    /\ frame' = NoFrame
    /\ result' = Running
    /\ calls' = <<>>
    /\ input' = [Past EXCEPT !.runs = @ + 1]
    /\ UNCHANGED <<monitors, backend, needs_capabilities, dry_run, set_index,
                   DRY_RUN, hw, writes, writesOk, sleeps, capsFetch, output>>

NextReuse ==
    \/ Start
    \/ BeginReuseArg
    \/ EndArgs
    \/ ForEachIndex
    \/ ForEachVisit
    \/ ForEachDone
    \/ SleepAll
    \/ Restart

SpecReuse == InitReuse /\ [][NextReuse]_vars

\* ------------------------------------------------------------------------
\* The public operations of Monitor called in any order
\* ------------------------------------------------------------------------

\* number of calls made to the monitors
MaxCalls == 4

\* the input sources a caller asks set_current_input_source for
WrittenSources == {17, 25}

\* what has been asked of each monitor so far: whether update_capabilities
\* was ever called on it and whether its fetch failed, and how many hardware
\* writes succeeded since sleep_if_needed was last called on it
NoHistory ==
    [set         |-> TRUE,
     n           |-> 0,
     called      |-> [d \in Devices |-> FALSE],
     fetchFailed |-> [d \in Devices |-> FALSE],
     okSince     |-> [d \in Devices |-> 0]]

\* a finished call: the operation, the monitor it was made on as it was
\* before, what it returned and the calls it made to the display
Called(op, i, res, cs) ==
    [set |-> TRUE, op |-> op, i |-> i, before |-> monitors[i], res |-> res,
     calls |-> cs]

InitMonitor ==
    /\ NotRunning
    /\ input = NoHistory
    /\ output = Unset

\* Monitor::set_dry_run
SetDryRun ==
    /\ pc = "function"
    /\ input.n < MaxCalls
    /\ \E value \in BOOLEAN : value # DRY_RUN /\ DRY_RUN' = value
    /\ UNCHANGED <<monitors, backend, needs_capabilities, dry_run, set_index,
                   hw, pc, argi, has_valid_args, frame, result, calls, writes,
                   writesOk, sleeps, capsFetch, input, output>>

\* Monitor::update_capabilities called on monitors[i]
CallUpdateCapabilities ==
    /\ pc = "function"
    /\ input.n < MaxCalls
    /\ \E i \in 1..Len(monitors) :
       \E fetchOk \in IF monitors[i].is_capabilities_updated
                      THEN {TRUE} ELSE BOOLEAN :
          LET u == update_capabilities(monitors[i], fetchOk)
          IN  /\ monitors' = [monitors EXCEPT ![i] = u.monitor]
              /\ Counted(u.calls)
              /\ input' = [input EXCEPT
                              !.n = @ + 1,
                              !.called[monitors[i].dev] = TRUE,
                              !.fetchFailed[monitors[i].dev] =
                                  @ \/ \E k \in 1..Len(u.calls) : ~u.calls[k].ok]
              /\ output' = Called("update_capabilities", i, u.res, u.calls)
    /\ UNCHANGED <<backend, needs_capabilities, dry_run, set_index, DRY_RUN,
                   hw, pc, argi, has_valid_args, frame, result, calls>>

\* Monitor::set_current_input_source called on monitors[i]
CallSetCurrentInputSource ==
    /\ pc = "function"
    /\ input.n < MaxCalls
    /\ \E i \in 1..Len(monitors), value \in WrittenSources :
       \E writeOk \in IF DRY_RUN THEN {TRUE} ELSE BOOLEAN :
          LET w == set_current_input_source(monitors[i], value, writeOk)
          IN  /\ monitors' = [monitors EXCEPT ![i] = w.monitor]
              /\ hw' = [hw EXCEPT ![monitors[i].dev] = w.shows]
              /\ Counted(w.calls)
              /\ input' = [input EXCEPT
                              !.n = @ + 1,
                              !.okSince[monitors[i].dev] =
                                  @ + CountOk(w.calls, "set_vcp_feature",
                                              monitors[i].dev)]
              /\ output' = Called("set_current_input_source", i, w.res, w.calls)
    /\ UNCHANGED <<backend, needs_capabilities, dry_run, set_index, DRY_RUN,
                   pc, argi, has_valid_args, frame, result, calls>>

\* Monitor::sleep_if_needed called on monitors[i]
CallSleepIfNeeded ==
    /\ pc = "function"
    /\ input.n < MaxCalls
    /\ \E i \in 1..Len(monitors) :
          LET s == sleep_if_needed(monitors[i])
          IN  /\ monitors' = [monitors EXCEPT ![i] = s.monitor]
              /\ Counted(s.calls)
              /\ input' = [input EXCEPT
                              !.n = @ + 1,
                              !.okSince[monitors[i].dev] = 0]
              /\ output' = Called("sleep_if_needed", i, OkUnit, s.calls)
    /\ UNCHANGED <<backend, needs_capabilities, dry_run, set_index, DRY_RUN,
                   hw, pc, argi, has_valid_args, frame, result, calls>>

NextMonitor ==
    \/ SetDryRun
    \/ CallUpdateCapabilities
    \/ CallSetCurrentInputSource
    \/ CallSleepIfNeeded

SpecMonitor == InitMonitor /\ [][NextMonitor]_vars

\* ------------------------------------------------------------------------
\* Properties
\* ------------------------------------------------------------------------

\* positions in calls where for_each invoked its callback
CallbackAt == { k \in 1..Len(calls) : calls[k].op = "callback" }

\* positions in calls of the hardware writes
WriteAt == { k \in 1..Len(calls) : calls[k].op = "set_vcp_feature" }

\* positions in calls of the hardware reads of the current input source
ReadAt == { k \in 1..Len(calls) : calls[k].op = "get_vcp_feature" }

\* position in calls of the first callback invocation
FirstCallbackAt == CHOOSE k \in CallbackAt : \A j \in CallbackAt : k <= j

\* the element of the toggle list an index selects
Selected(index) ==
    frame.input_sources[Min(index, Len(frame.input_sources) - 1) + 1]

\* C1: when Cli::run returns, with success or with the error of a failed
\* argument, no monitor of the working list has its settle-pending flag set.
C1_SettledOnEveryReturn ==
    pc = "done" => \A i \in 1..Len(monitors) : ~monitors[i].needs_sleep

C3_OneReadOneValue ==
    frame.cb = "toggle"
        => /\ \A k \in ReadAt :
                  k = FirstCallbackAt + 1 /\ calls[k].dev = calls[k - 1].dev
           /\ \A j, k \in WriteAt : calls[j].value = calls[k].value
           /\ \A k \in WriteAt :
                  \E n \in 1..Len(frame.input_sources) :
                      calls[k].value = frame.input_sources[n]
           /\ \A k \in CallbackAt :
                  (calls[k].ok /\ ~DRY_RUN)
                      => \E w \in WriteAt :
                            /\ w \in {k + 1, k + 2}
                            /\ calls[w].dev = calls[k].dev
                            /\ calls[w].ok

\* a toggle argument read the first of two matched monitors, which showed
\* different input sources, and wrote the same value to both
C3_Witness ==
    /\ frame.cb = "toggle"
    /\ Cardinality(ReadAt) = 1
    /\ \E j, k \in CallbackAt :
          /\ j < k
          /\ calls[j].dev # calls[k].dev
          /\ calls[j].shows # calls[k].shows
          /\ \E v, w \in WriteAt :
                /\ calls[v].dev = calls[j].dev
                /\ calls[w].dev = calls[k].dev
                /\ calls[v].ok /\ calls[w].ok
                /\ calls[v].value = calls[w].value

\* Cli::run returned an error
Failed == pc = "done" /\ ~result.ok

\* Cli::run returned Ok(())
Succeeded == pc = "done" /\ result.ok

\* for_each has returned success to Cli::run for the argument of frame
ForEachSucceeded == pc \in {"args", "sleep"} \/ Succeeded

\* C4: after a run that returns success, sleep() was called exactly once on
\* each display that received a successful hardware write, however many,
\* and not at all on any other display.
C4_OneSleepPerWrittenMonitor ==
    Succeeded
        => \A d \in Devices : sleeps[d] = IF writesOk[d] > 0 THEN 1 ELSE 0

\* a successful run wrote one display twice, slept on it once, and left
\* another display alone
C4_Witness ==
    /\ Succeeded
    /\ \E d, e \in Devices :
          writesOk[d] >= 2 /\ sleeps[d] = 1 /\ writesOk[e] = 0 /\ sleeps[e] = 0

\* C5: no hardware write is issued once any display has been asked to sleep,
\* and the step that writes does not sleep.
C5_WritesBeforeSleeps ==
    [][(\E d \in Devices : writes'[d] > writes[d])
          => /\ \A d \in Devices : sleeps[d] = 0
             /\ sleeps' = sleeps]_vars

\* two arguments wrote two displays and both were slept on at the end
C5_Witness ==
    /\ pc = "done"
    /\ argi >= 2
    /\ \E d, e \in Devices :
          d # e /\ writesOk[d] >= 1 /\ writesOk[e] >= 1
              /\ sleeps[d] = 1 /\ sleeps[e] = 1

\* C6: with dry-run set no hardware write is issued, no settle-pending flag
\* is set, no display is slept on, and set_current_input_source succeeds.
C6_DryRunWritesNothing ==
    dry_run
        => /\ \A d \in Devices : writes[d] = 0 /\ sleeps[d] = 0
           /\ \A i \in 1..Len(monitors) : ~monitors[i].needs_sleep
           /\ frame.cb = "set" => \A k \in CallbackAt : calls[k].ok

\* a dry run whose last argument set an input source on a monitor returned
\* success
C6_Witness ==
    /\ dry_run
    /\ Succeeded
    /\ frame.cb \in {"set", "toggle"}
    /\ CallbackAt # {}

\* C7: compute_toggle_set_index returns the 1-based position of the first
\* occurrence of current in the list (its 0-based position plus one), 0 when
\* current is not in the list, and so a value in 0..Len(list).
C7_ToggleIndex ==
    output.set
        => LET c == input.current
               l == input.input_sources
               r == output.value
           IN  /\ r \in 0..Len(l)
               /\ IF \E n \in 1..Len(l) : l[n] = c
                  THEN r >= 1 /\ l[r] = c /\ \A n \in 1..(r - 1) : l[n] # c
                  ELSE r = 0

\* current occurs twice in the list, after another code: the first
\* occurrence decides
C7_Witness ==
    /\ output.set
    /\ Len(input.input_sources) >= 3
    /\ input.input_sources[1] # input.current
    /\ input.input_sources[2] = input.current
    /\ input.input_sources[3] = input.current
    /\ output.value = 2

\* the list indices for_each passed to its callback, in call order
RECURSIVE IndicesOf(_)
IndicesOf(cs) ==
    IF cs = <<>> THEN <<>>
    ELSE IF Head(cs).op = "callback" THEN <<Head(cs).index>> \o IndicesOf(Tail(cs))
    ELSE IndicesOf(Tail(cs))

\* the name of frame occurs in the identifier of monitors[j]
Matches(j) == frame.name = <<>> \/ StrContains(monitors[j].id, frame.name)

\* the indices, from 0, of the first n monitors that match, ascending
RECURSIVE MatchedIndices(_)
MatchedIndices(n) ==
    IF n = 0 THEN <<>>
    ELSE IF Matches(n) THEN Append(MatchedIndices(n - 1), n - 1)
    ELSE MatchedIndices(n - 1)

\* C8: in substring mode the callback is invoked on exactly the visited
\* monitors whose identifier contains the token (all of them for the empty
\* token), in enumeration order; a for_each that succeeds has visited every
\* monitor; when none matched it fails, having made no callback, with an
\* error whose text contains the token.
C8_SubstringDispatch ==
    (frame.cb # "none" /\ ~frame.by_index)
        => /\ IndicesOf(calls) = MatchedIndices(frame.i - 1)
           /\ \A k \in CallbackAt :
                  calls[k].dev = monitors[calls[k].index + 1].dev
           /\ ForEachSucceeded => frame.i = Len(monitors) + 1
           /\ (pc # "for_each" /\ MatchedIndices(Len(monitors)) = <<>>)
                  => /\ Failed
                     /\ result.kind = "NoMonitors"
                     /\ CallbackAt = {}
                     /\ StrContains(result.msg, frame.name)

\* the token c skipped the first monitor and reached the second
C8_Witness ==
    /\ frame.cb # "none"
    /\ ~frame.by_index
    /\ frame.name = <<"c">>
    /\ ForEachSucceeded
    /\ Len(monitors) >= 2
    /\ IndicesOf(calls) = <<1>>

\* the index a numeric name selects
IndexOf(name) == ParseUnsigned(name, UsizeLimit)

C10_RefreshEveryVisited ==
    (needs_capabilities /\ frame.cb # "none" /\ ~frame.by_index)
        => /\ \A j \in 1..(frame.i - 1) : monitors[j].is_capabilities_updated
           /\ \A k \in 1..Len(calls) :
                  calls[k].op = "update_capabilities"
                      => /\ \A j \in CallbackAt :
                                calls[j].dev = calls[k].dev => k < j
                         /\ \A j \in 1..Len(monitors) :
                                (monitors[j].dev = calls[k].dev /\ Matches(j))
                                    => /\ k < Len(calls)
                                       /\ calls[k + 1].op = "callback"
                                       /\ calls[k + 1].dev = calls[k].dev
           /\ Failed => ~(result.kind = "Hardware"
                             /\ result.msg[1] = "update_capabilities")
           /\ ForEachSucceeded => frame.i = Len(monitors) + 1

\* the fetch failed on the first monitor, which does not match, and the
\* second monitor was still refreshed and dispatched
C10_Witness ==
    /\ needs_capabilities
    /\ frame.cb # "none"
    /\ ~frame.by_index
    /\ ForEachSucceeded
    /\ Len(calls) >= 3
    /\ calls[1].op = "update_capabilities" /\ ~calls[1].ok
    /\ ~Matches(1)
    /\ calls[2].op = "update_capabilities" /\ calls[2].dev # calls[1].dev
    /\ calls[3].op = "callback" /\ calls[3].dev = calls[2].dev

\* the positions of monitors in the working list
Positions == 1..Len(monitors)

\* C11: update_capabilities contacts the display at most once per monitor
\* over any sequence of calls: the capabilities-fetched flag is true exactly
\* when the operation has been called on the monitor, whether the fetch
\* succeeded or failed; the first call makes the fetch and returns its
\* outcome, and every later call returns success without a fetch.
C11_FetchAtMostOnce ==
    /\ \A i \in Positions :
          /\ monitors[i].is_capabilities_updated = input.called[monitors[i].dev]
          /\ capsFetch[monitors[i].dev] =
                 IF input.called[monitors[i].dev] THEN 1 ELSE 0
    /\ (output.set /\ output.op = "update_capabilities")
          => /\ monitors[output.i].is_capabilities_updated
             /\ IF output.before.is_capabilities_updated
                THEN output.res.ok /\ output.calls = <<>>
                ELSE /\ Len(output.calls) = 1
                     /\ output.calls[1].op = "update_capabilities"
                     /\ output.calls[1].dev = output.before.dev
                     /\ output.res.ok = output.calls[1].ok

\* the fetch of a monitor failed, and a later call on the same monitor
\* returned success without a fetch
C11_Witness ==
    /\ output.set
    /\ output.op = "update_capabilities"
    /\ input.fetchFailed[output.before.dev]
    /\ output.before.is_capabilities_updated
    /\ output.res.ok
    /\ output.calls = <<>>
    /\ capsFetch[output.before.dev] = 1

\* C20: a monitor's settle-pending flag is true exactly when a hardware write
\* to it has succeeded since sleep_if_needed was last called on it (or since
\* it was created); a hardware write that fails returns its error and leaves
\* the monitor as it was; sleep_if_needed on a monitor whose flag is false
\* makes no call to the display and leaves the monitor as it was.
C20_SettlePendingIffWritten ==
    /\ \A i \in Positions :
          monitors[i].needs_sleep = (input.okSince[monitors[i].dev] > 0)
    /\ (output.set /\ output.op = "set_current_input_source")
          => /\ (\E k \in 1..Len(output.calls) : ~output.calls[k].ok)
                    => ~output.res.ok /\ monitors[output.i] = output.before
             /\ (\A k \in 1..Len(output.calls) : output.calls[k].ok)
                    => output.res.ok
    /\ (output.set /\ output.op = "sleep_if_needed")
          => /\ ~monitors[output.i].needs_sleep
             /\ IF output.before.needs_sleep
                THEN /\ Len(output.calls) = 1
                     /\ output.calls[1].op = "sleep"
                     /\ output.calls[1].dev = output.before.dev
                ELSE output.calls = <<>> /\ monitors[output.i] = output.before

\* a monitor was written and slept on, and a write to it then failed: its
\* flag is false although it was written before
C20_Witness ==
    /\ output.set
    /\ output.op = "set_current_input_source"
    /\ ~output.res.ok
    /\ writesOk[output.before.dev] >= 1
    /\ sleeps[output.before.dev] = 1
    /\ ~monitors[output.i].needs_sleep
    /\ \E j \in Positions : j # output.i /\ monitors[j].needs_sleep

\* the six codes that have a name
NamedCodes == {15, 16, 17, 18, 25, 27}

\* the number a run of decimal digits stands for
RECURSIVE DecimalValue(_)
DecimalValue(t) ==
    IF t = <<>> THEN 0
    ELSE DecimalValue(SubSeq(t, 1, Len(t) - 1)) * 10 + DigitVal(t[Len(t)])

\* t is the decimal string of v: digits only, no leading zero
IsDecimalOf(t, v) ==
    /\ Len(t) >= 1
    /\ \A k \in 1..Len(t) : IsDigit(t[k])
    /\ Len(t) > 1 => t[1] # "0"
    /\ DecimalValue(t) = v

\* C12: for each of the six named input sources c, str_from_raw(c) is a
\* name, not a number, and raw_from_str of it succeeds and returns c.
C12_NamedRoundTrip ==
    (output.set /\ input.kind = "raw" /\ input.value \in NamedCodes)
        => /\ output.back.ok
           /\ output.back.value = input.value
           /\ Len(output.text) >= 1
           /\ \E k \in 1..Len(output.text) : ~IsDigit(output.text[k])

\* 0x0F came out as DP1 and went back to 0x0F
C12_Witness ==
    /\ output.set
    /\ input.kind = "raw"
    /\ input.value = 15
    /\ output.text = <<"D", "P", "1">>
    /\ output.back.ok
    /\ output.back.value = 15

\* C13: for every byte value v that is not one of the six named codes,
\* str_from_raw(v) is the decimal string of v and raw_from_str of that
\* string returns v; str_from_raw gives a non-empty text for all 256 values.
C13_UnnamedRoundTrip ==
    (output.set /\ input.kind = "raw")
        => /\ Len(output.text) >= 1
           /\ input.value \notin NamedCodes
                 => /\ IsDecimalOf(output.text, input.value)
                    /\ output.back.ok
                    /\ output.back.value = input.value

\* 255, the largest value, came out as "255" and went back to 255
C13_Witness ==
    /\ output.set
    /\ input.kind = "raw"
    /\ input.value = 255
    /\ output.text = <<"2", "5", "5">>
    /\ output.back.ok
    /\ output.back.value = 255

\* t is an unsigned integer text in 0..255 as u8::from_str reads it: an
\* optional '+' and then digits only
IsByteText(t) ==
    LET digits == IF t # <<>> /\ t[1] = "+" THEN SubSeq(t, 2, Len(t)) ELSE t
    IN  /\ Len(digits) >= 1
        /\ \A k \in 1..Len(digits) : IsDigit(digits[k])
        /\ DecimalValue(digits) <= 255

\* the value of such a text
ByteTextValue(t) ==
    DecimalValue(IF t[1] = "+" THEN SubSeq(t, 2, Len(t)) ELSE t)

\* the names raw_from_str accepts, in small letters, and their codes
AcceptedNames ==
    { [name |-> <<"d", "p", "1">>, raw |-> 15],
      [name |-> <<"d", "p", "2">>, raw |-> 16],
      [name |-> <<"h", "d", "m", "i", "1">>, raw |-> 17],
      [name |-> <<"h", "d", "m", "i", "2">>, raw |-> 18],
      [name |-> <<"u", "s", "b", "c", "1">>, raw |-> 25],
      [name |-> <<"u", "s", "b", "c", "2">>, raw |-> 27] }

\* the accepted names that t is, ignoring the case of ASCII letters
NamesOf(t) ==
    { a \in AcceptedNames : a.name = [k \in 1..Len(t) |-> ToAsciiLower(t[k])] }

\* C14: raw_from_str(s) succeeds exactly when s is an integer text in
\* 0..255, giving its value, or an accepted input-source name ignoring ASCII
\* letter case, giving its code; for every other s it returns an error whose
\* message contains s.
C14_AcceptsNumbersAndNames ==
    (output.set /\ input.kind = "str")
        => LET s == input.text
           IN  /\ output.res.ok = (IsByteText(s) \/ NamesOf(s) # {})
               /\ IsByteText(s) => output.res.value = ByteTextValue(s)
               /\ \A a \in NamesOf(s) : output.res.value = a.raw
               /\ ~output.res.ok => StrContains(output.res.msg, s)

\* HDMI1 in capitals gave 0x11
C14_Witness ==
    /\ output.set
    /\ input.kind = "str"
    /\ input.text = <<"H", "D", "M", "I", "1">>
    /\ output.res.ok
    /\ output.res.value = 17

\* position of the first '=' of a text, 0 when it has none
FirstEq(t) ==
    IF \E p \in 1..Len(t) : t[p] = "="
    THEN CHOOSE p \in 1..Len(t) : t[p] = "=" /\ \A r \in 1..(p - 1) : t[r] # "="
    ELSE 0

\* C15: an argument is treated as an assignment exactly when it contains '='
\* with a non-empty part before the first '=' and a non-empty part after it;
\* the name is the text before the first '=' and the value everything after
\* it; every other argument is processed whole as a lookup token.
C15_AssignmentIffBothSidesNonEmpty ==
    output.set
        => LET arg == input.text
               p == FirstEq(arg)
           IN  IF p > 1 /\ p < Len(arg)
               THEN /\ output.captures =
                          <<SubSeq(arg, 1, p - 1), SubSeq(arg, p + 1, Len(arg))>>
                    /\ output.plan.cb \in {"set", "toggle"}
                    /\ output.plan.name = SubSeq(arg, 1, p - 1)
               ELSE /\ output.captures = <<>>
                    /\ output.plan.cb = "print"
                    /\ output.plan.name = arg

\* the lines printed, in order: the index and the display of each
RECURSIVE PrintedOf(_)
PrintedOf(cs) ==
    IF cs = <<>> THEN <<>>
    ELSE IF Head(cs).op = "println"
    THEN <<[index |-> Head(cs).index, dev |-> Head(cs).dev,
            id |-> Head(cs).text[1]]>> \o PrintedOf(Tail(cs))
    ELSE PrintedOf(Tail(cs))

\* C16: a run without positional arguments makes one lookup with the empty
\* token; with at least one monitor in the working list it prints one
\* description per monitor, with the indices 0..n-1 in list order, whether or
\* not the input source could be read, issues no hardware write, sets no
\* settle-pending flag, sleeps on no display, and returns success.
C16_NoArgsListsAll ==
    (argi = 0 /\ pc \in {"sleep", "done"} /\ Len(monitors) >= 1)
        => /\ frame.final
           /\ frame.cb = "print"
           /\ frame.name = <<>>
           /\ ~frame.by_index
           /\ PrintedOf(calls) =
                  [k \in 1..Len(monitors) |->
                      [index |-> k - 1, dev |-> monitors[k].dev,
                       id |-> monitors[k].id]]
           /\ \A d \in Devices : writes[d] = 0 /\ sleeps[d] = 0
           /\ \A i \in 1..Len(monitors) : ~monitors[i].needs_sleep
           /\ pc = "done" => result.ok

\* a run without arguments listed two monitors and returned, although the
\* input source of one of them could not be read
C16_Witness ==
    /\ argi = 0
    /\ Succeeded
    /\ Len(monitors) >= 2
    /\ Len(PrintedOf(calls)) = Len(monitors)
    /\ \E k \in ReadAt : ~calls[k].ok

\* the value the display d shows after the calls cs, when it showed v before
RECURSIVE ShownAfter(_, _, _)
ShownAfter(cs, d, v) ==
    IF cs = <<>> THEN v
    ELSE IF Head(cs).op = "set_vcp_feature" /\ Head(cs).dev = d /\ Head(cs).ok
    THEN ShownAfter(Tail(cs), d, Head(cs).value)
    ELSE ShownAfter(Tail(cs), d, v)

\* the calls a step made: taking an argument starts the record of its calls
\* afresh and makes none
AddedCalls ==
    IF pc = "args" THEN <<>> ELSE SubSeq(calls', Len(calls) + 1, Len(calls'))

\* C17: Cli::run takes the arguments in order and returns at the first one
\* that fails, with the error of that argument: no step is taken once it has
\* returned, so no later argument reads, writes or prints; the step that
\* fails undoes nothing, and the displays show what the successful writes
\* made so far, by earlier arguments and by this one, left them showing.
C17_StopsAtFirstFailure ==
    [][/\ result = Running
       /\ argi' \in {argi, argi + 1}
       /\ \A d \in Devices :
              /\ hw'[d] = ShownAfter(AddedCalls, d, hw[d])
              /\ writesOk'[d] =
                     writesOk[d] + CountOk(AddedCalls, "set_vcp_feature", d)
       /\ (pc' = "done" /\ ~result'.ok)
              => \/ /\ pc = "args"
                    /\ argi' = argi + 1
                    /\ result'.kind = "InvalidInputSource"
                    /\ calls' = <<>>
                 \/ /\ pc = "for_each"
                    /\ argi' = argi
                    /\ result'.kind = "NoMonitors"
                    /\ StrContains(result'.msg, frame.name)
                    /\ calls' = calls
                 \/ /\ pc = "for_each"
                    /\ argi' = argi
                    /\ result'.kind = "Hardware"
                    /\ calls' # calls
                    /\ ~calls'[Len(calls')].ok
                    /\ result'.msg[1] = calls'[Len(calls')].op]_vars

\* the second argument failed without a write, and a display still shows
\* what the first argument wrote to it
C17_Witness ==
    /\ Failed
    /\ argi >= 2
    /\ \A k \in WriteAt : ~calls[k].ok
    /\ \E d \in Devices : writesOk[d] >= 1 /\ hw[d] \in {15, 27}

\* the backend label of display d contains the configured filter
Kept(d) == backend.some => StrContains(BackendOf(d), backend.value)

\* the displays among 1..n that the filter keeps, in enumeration order
RECURSIVE KeptDevices(_)
KeptDevices(n) ==
    IF n = 0 THEN <<>>
    ELSE IF Kept(n) THEN Append(KeptDevices(n - 1), n)
    ELSE KeptDevices(n - 1)

\* C18: once the filters are applied, before the first argument, the working
\* list is the enumerated monitors whose backend label contains the filter,
\* in enumeration order; a display that was removed gets no capability
\* fetch, no read, no write and no sleep, whatever the arguments; and the
\* index passed to a callback or printed is the position in the filtered
\* list.
C18_BackendFilter ==
    /\ \A d \in Devices :
          ~Kept(d) => /\ writes[d] = 0
                      /\ sleeps[d] = 0
                      /\ capsFetch[d] = 0
                      /\ \A k \in 1..Len(calls) : calls[k].dev # d
    /\ pc # "start"
          => /\ [k \in 1..Len(monitors) |-> monitors[k].dev]
                    = KeptDevices(NumMonitors)
             /\ \A k \in 1..Len(calls) :
                    calls[k].op \in {"callback", "println"}
                        => /\ calls[k].index < Len(KeptDevices(NumMonitors))
                           /\ calls[k].dev =
                                  KeptDevices(NumMonitors)[calls[k].index + 1]

\* with a filter that removed the first display, the token 0 wrote the
\* second one
C18_Witness ==
    /\ backend.some
    /\ ~Kept(1)
    /\ frame.by_index
    /\ frame.name = <<"0">>
    /\ \E k \in WriteAt : calls[k].ok /\ calls[k].dev = 2
    /\ \E k \in CallbackAt : calls[k].index = 0 /\ calls[k].dev = 2

\* the last element of the toggle list
LastSource == frame.input_sources[Len(frame.input_sources)]

\* every write of the toggle argument carries the element of its list at
\* min(index, len - 1), with that position inside the list
WritesClamped ==
    \A k \in WriteAt :
        /\ frame.set_index >= 0
        /\ Min(frame.set_index, Len(frame.input_sources) - 1)
               \in 0..(Len(frame.input_sources) - 1)
        /\ calls[k].value =
               frame.input_sources[Min(frame.set_index,
                                       Len(frame.input_sources) - 1) + 1]

C21_AbortsAtFirstHardwareFailure ==
    (frame.cb \in {"set", "toggle"} /\ ~frame.by_index)
        => \A k \in CallbackAt :
               ~calls[k].ok
                   => /\ Failed
                      /\ result.kind = "Hardware"
                      /\ ~calls[Len(calls)].ok
                      /\ result.msg[1] = calls[Len(calls)].op
                      /\ \A j \in k..Len(calls) : calls[j].dev = calls[k].dev
                      /\ \A j \in CallbackAt : j <= k
                      /\ monitors[frame.i - 1].dev = calls[k].dev
                      /\ \A j \in frame.i..Len(monitors) :
                             \A n \in 1..Len(calls) :
                                 calls[n].dev # monitors[j].dev
                      /\ \A w \in WriteAt :
                             calls[w].ok => hw[calls[w].dev] = calls[w].value

\* the first argument of a run, with the capabilities requested, matched two
\* monitors and failed on the first: the second was not even refreshed
C21_Witness ==
    /\ frame.cb \in {"set", "toggle"}
    /\ ~frame.by_index
    /\ needs_capabilities
    /\ argi = 1
    /\ Failed
    /\ result.kind = "Hardware"
    /\ Len(monitors) >= 2
    /\ frame.i = 2
    /\ Matches(1) /\ Matches(2)
    /\ monitors[1].is_capabilities_updated
    /\ ~monitors[2].is_capabilities_updated
    /\ capsFetch[monitors[2].dev] = 0

\* C22: when the read of the current input source fails for a toggle
\* argument, the argument and Cli::run fail with the error of the read: the
\* read was made on the first monitor the argument reached and is the last
\* call made, no monitor was written by the argument, and the index stays
\* uncomputed, in the argument and in the Cli.
C22_FailedReadFailsToggle ==
    frame.cb = "toggle"
        => \A k \in ReadAt :
               ~calls[k].ok
                   => /\ Failed
                      /\ result.kind = "Hardware"
                      /\ result.msg[1] = "get_vcp_feature"
                      /\ k = Len(calls)
                      /\ k = FirstCallbackAt + 1
                      /\ Cardinality(CallbackAt) = 1
                      /\ WriteAt = {}
                      /\ frame.set_index = None
                      /\ set_index = None

\* a toggle argument matched two monitors and the read failed on the first:
\* neither was written
C22_Witness ==
    /\ frame.cb = "toggle"
    /\ ~frame.by_index
    /\ Len(monitors) >= 2
    /\ Matches(1) /\ Matches(2)
    /\ Failed
    /\ \E k \in ReadAt : ~calls[k].ok /\ calls[k].dev = monitors[1].dev
    /\ WriteAt = {}
    /\ set_index = None

\* C23: a lookup argument does not fail because a read fails: every callback
\* of it succeeds, having read the monitor once and printed one line for it,
\* with the input source by name when the read succeeded and the text of the
\* error when it failed; the only error a lookup returns is that no monitor
\* matched, and a lookup in substring mode that returned success has printed
\* every matching monitor.
C23_LookupPrintsDespiteReadFailure ==
    frame.cb = "print"
        => /\ \A k \in CallbackAt :
                  /\ calls[k].ok
                  /\ Len(calls) >= k + 2
                  /\ calls[k + 1].op = "get_vcp_feature"
                  /\ calls[k + 1].dev = calls[k].dev
                  /\ calls[k + 2].op = "println"
                  /\ calls[k + 2].dev = calls[k].dev
                  /\ calls[k + 2].index = calls[k].index
                  /\ Len(calls[k + 2].text) = 2
                  /\ IF calls[k + 1].ok
                     THEN calls[k + 2].text[2] = str_from_raw(calls[k].shows)
                     ELSE calls[k + 2].text[2][1] = "get_vcp_feature"
           /\ Cardinality({ k \in 1..Len(calls) : calls[k].op = "println" })
                  = Cardinality(CallbackAt)
           /\ Failed => result.kind = "NoMonitors" /\ CallbackAt = {}
           /\ (ForEachSucceeded /\ ~frame.by_index)
                  => [k \in 1..Len(PrintedOf(calls)) |-> PrintedOf(calls)[k].index]
                         = MatchedIndices(Len(monitors))

\* a lookup matched two monitors, the read of the first failed, and both
\* were printed, the first with the text of the error
C23_Witness ==
    /\ frame.cb = "print"
    /\ ~frame.by_index
    /\ ForEachSucceeded
    /\ Len(PrintedOf(calls)) >= 2
    /\ calls[1].op = "callback"
    /\ calls[2].op = "get_vcp_feature" /\ ~calls[2].ok
    /\ calls[3].op = "println" /\ calls[3].text[2][1] = "get_vcp_feature"

\* for_each is about to index the working list past its end
OutOfRange ==
    /\ pc = "for_each"
    /\ frame.by_index
    /\ IndexOf(frame.name) >= Len(monitors)

\* C24: a numeric token that is not less than the length of the working
\* list makes the run abort: the step invokes no callback, makes no call to
\* any display and changes no monitor, the run ends there without an
\* ordinary result, and no step follows, so no display is slept on. Nothing
\* else aborts the run.
C24_OutOfRangeIndexAborts ==
    [][/\ pc # "panicked"
       /\ OutOfRange
             => /\ pc' = "panicked"
                /\ result' = [state |-> "panicked"]
                /\ UNCHANGED <<monitors, hw, calls, writes, writesOk, sleeps,
                               capsFetch, set_index>>
                /\ calls = <<>>
                /\ \A d \in Devices : sleeps[d] = 0
       /\ pc' = "panicked" => OutOfRange]_vars

\* the second argument named an index past the end of the list: the run
\* aborted, and the monitor the first argument wrote is left unsettled
C24_Witness ==
    /\ pc = "panicked"
    /\ argi >= 2
    /\ frame.cb \in {"set", "toggle"}
    /\ calls = <<>>
    /\ \E i \in 1..Len(monitors) :
          monitors[i].needs_sleep /\ sleeps[monitors[i].dev] = 0

\* the elements of a comma-separated value: its longest runs without a
\* comma, the empty ones included
Elements(value) ==
    { SubSeq(value, ab[1], ab[2]) :
        ab \in { x \in (1..(Len(value) + 1)) \X (0..Len(value)) :
                   /\ x[2] >= x[1] - 1
                   /\ \A k \in x[1]..x[2] : value[k] # ","
                   /\ x[1] = 1 \/ value[x[1] - 1] = ","
                   /\ x[2] = Len(value) \/ value[x[2] + 1] = "," } }

\* raw_from_str accepts the text (C14)
IsInputSourceText(t) == IsByteText(t) \/ NamesOf(t) # {}

\* the value of the given argument: what follows its first '='
GivenValue == SubSeq(input.text, FirstEq(input.text) + 1, Len(input.text))

\* C25: every value of a set or toggle argument is decoded before a monitor
\* is visited: when the value, or any element of the comma-separated list,
\* an empty one included, is no input source, the argument fails with an
\* error that names such an element, and no monitor was refreshed, read or
\* written; and only then does it fail with that error.
C25_ValuesDecodedFirst ==
    argi = 1
        => IF \E e \in Elements(GivenValue) : ~IsInputSourceText(e)
           THEN /\ Failed
                /\ result.kind = "InvalidInputSource"
                /\ \E e \in Elements(GivenValue) :
                       /\ ~IsInputSourceText(e)
                       /\ result.msg = <<"\"">> \o e
                              \o <<"\" is not a valid input source">>
                /\ calls = <<>>
                /\ monitors = [d \in Devices |-> NewMonitor(d)]
                /\ hw = [d \in Devices |-> 17]
                /\ \A d \in Devices : capsFetch[d] = 0 /\ writes[d] = 0
           ELSE Failed => result.kind # "InvalidInputSource"

\* with the capabilities requested, the list 1, with its empty second
\* element failed before any monitor was refreshed
C25_Witness ==
    /\ argi = 1
    /\ needs_capabilities
    /\ GivenValue = <<"1", ",">>
    /\ Failed
    /\ result.msg = <<"\"">> \o <<"\" is not a valid input source">>
    /\ \A d \in Devices : capsFetch[d] = 0

\* C26: with an empty working list, a lookup with the empty token, given as
\* an argument or standing in for missing arguments, returns the error that
\* no display monitors were found, having printed nothing; and with an empty
\* working list the run never returns success.
C26_EmptyListFails ==
    (pc # "start" /\ Len(monitors) = 0)
        => /\ pc # "sleep"
           /\ ~Succeeded
           /\ (frame.cb = "print" /\ frame.name = <<>> /\ ~frame.active)
                 => /\ Failed
                    /\ result.kind = "NoMonitors"
                    /\ result.msg =
                           <<"No display monitors found for \"", "\".">>
                    /\ calls = <<>>

\* the backend filter removed every monitor and the run had no arguments:
\* it returned the error
C26_Witness ==
    /\ backend.some
    /\ Len(monitors) = 0
    /\ argi = 0
    /\ frame.final
    /\ Failed
    /\ result.kind = "NoMonitors"

\* the reads of the current input source toggle arguments have made on this
\* Cli, in this call of run and in the ones before it
ToggleReadsMade == input.reads + Cardinality(ToggleReads(frame, calls))

\* those of them that succeeded
ToggleReadsOk ==
    input.readsOk
        + Cardinality({ k \in ToggleReads(frame, calls) : calls[k].ok })

\* a toggle argument that found an index stored writes the element of its own
\* list at that index, clamped, and reads nothing
WritesAtStored ==
    (frame.cb = "toggle" /\ frame.stored # None)
        => /\ ReadAt = {}
           /\ frame.set_index = frame.stored
           /\ \A k \in WriteAt : calls[k].value = Selected(frame.stored)

\* C27 as stated: over the calls of run on one Cli, the stored index, once
\* computed, never changes; toggle arguments make at most one read of the
\* current input source in all; and a toggle argument that finds the index
\* stored writes list[min(stored index, len(list) - 1)] of its own list.
C27_WriteOnceOneRead ==
    [][/\ set_index # None => set_index' = set_index
       /\ ToggleReadsMade' <= 1
       /\ WritesAtStored']_vars

\* C27, amended: the stored index, once computed, never changes, and it is
\* computed only at the end of a toggle argument that made the one
\* successful read; toggle arguments read only while no index is stored, at
\* most one read succeeds, a failed read ends its call of run with the index
\* still uncomputed, so the reads are at most as many as the calls of run;
\* and a toggle argument that finds the index stored writes
\* list[min(stored index, len(list) - 1)] of its own list without reading.
C27_WriteOnceOneGoodRead ==
    [][/\ set_index # None => set_index' = set_index
       /\ set_index' # set_index
             => /\ frame'.cb = "toggle"
                /\ ToggleReadsOk' = 1
                /\ set_index' = frame'.set_index
       /\ ToggleReadsMade' > ToggleReadsMade => set_index = None
       /\ ToggleReadsOk' <= 1
       /\ ToggleReadsMade' <= input'.runs
       /\ (ToggleReadsMade' > ToggleReadsOk' /\ ToggleReadsOk' = 0)
             => set_index' = None
       /\ WritesAtStored']_vars

\* in a later call of run a toggle argument wrote a monitor from the index an
\* earlier call stored, and the one read of the Cli is that earlier one
C27_Witness ==
    /\ input.runs >= 2
    /\ input.reads = 1
    /\ input.readsOk = 1
    /\ frame.cb = "toggle"
    /\ frame.stored # None
    /\ set_index = frame.stored
    /\ ReadAt = {}
    /\ \E k \in WriteAt :
          /\ calls[k].ok
          /\ calls[k].value = Selected(frame.stored)
          /\ calls[k].value # 15

====
